---- MODULE Spec2Model ----
(***************************************************************************)
(* korean-crypto-mcp (src/main.py): the kimchi-premium computation, the    *)
(* alert policy with its per-key cooldown, the Telegram monitor loop, its  *)
(* lifespan (start / cancel) and the request handlers that run beside it.  *)
(*                                                                         *)
(* Time is counted in whole minutes (datetime.now() is the variable now)   *)
(* and does not run backwards.  Prices and rates are positive integers; a  *)
(* premium is kept as the exact fraction num/den (den > 0) of the value    *)
(* the code computes in floating point, and is compared with a threshold   *)
(* by cross-multiplication.  Every await is a separate step: other tasks   *)
(* may run between a call and its return.                                  *)
(*                                                                         *)
(* ev and resp are outputs: what the monitor did and what a handler        *)
(* answered in the step just taken.  The field attempted of a monitor task *)
(* collects the keys send_telegram was called for during the evaluation of *)
(* the current symbol.                                                     *)
(***************************************************************************)
EXTENDS Integers, Sequences, FiniteSets, TLC

\* ---------------------------------------------------------------- bounds
MaxTime     == 62      \* the clock is not advanced beyond this minute
SleepJitter == 1       \* asyncio.sleep may return up to this many minutes late
SendDelay   == 1       \* a send_telegram call takes up to this many minutes
MaxTasks    == 2       \* task objects asyncio.create_task can hand out
MaxRequestTime == 1    \* no new request arrives after this minute

\* ------------------------------------------------------ program constants
CooldownMinutes == 60      \* _can_alert(key, cooldown_minutes=60)
DefaultUsdKrw   == 1350    \* usd_krw = 1350.0 when the FX fetch fails
NoTask          == 0       \* _monitor_task = None

Tasks == 1..MaxTasks

\* COINGECKO_IDS: the static symbol -> reference id table
COINGECKO_IDS ==
    [c \in {"BTC", "ETH", "XRP", "SOL", "ADA", "DOGE", "AVAX", "DOT", "MATIC",
            "LINK", "UNI", "ATOM", "LTC", "BCH", "ETC", "NEAR", "APT", "ARB",
            "OP", "SUI", "TRX", "SHIB", "PEPE", "BNB", "TON", "STX", "SAND",
            "MANA"} |->
        CASE c = "BTC" -> "bitcoin"       [] c = "ETH" -> "ethereum"
          [] c = "XRP" -> "ripple"        [] c = "SOL" -> "solana"
          [] c = "ADA" -> "cardano"       [] c = "DOGE" -> "dogecoin"
          [] c = "AVAX" -> "avalanche-2"  [] c = "DOT" -> "polkadot"
          [] c = "MATIC" -> "matic-network" [] c = "LINK" -> "chainlink"
          [] c = "UNI" -> "uniswap"       [] c = "ATOM" -> "cosmos"
          [] c = "LTC" -> "litecoin"      [] c = "BCH" -> "bitcoin-cash"
          [] c = "ETC" -> "ethereum-classic" [] c = "NEAR" -> "near"
          [] c = "APT" -> "aptos"         [] c = "ARB" -> "arbitrum"
          [] c = "OP" -> "optimism"       [] c = "SUI" -> "sui"
          [] c = "TRX" -> "tron"          [] c = "SHIB" -> "shiba-inu"
          [] c = "PEPE" -> "pepe"         [] c = "BNB" -> "binancecoin"
          [] c = "TON" -> "the-open-network" [] c = "STX" -> "blockstack"
          [] c = "SAND" -> "the-sandbox"  [] c = "MANA" -> "decentraland"]

\* ------------------------------------------------------------ input sets
\* Symbols as they appear in ALERT_COINS or in a request path, and what
\* strip() and upper() make of them.  KLAY is a symbol the static table
\* does not hold.
RawCoins == {"BTC", " btc", "ETH", "KLAY"}

\* str.strip()
Strip(s) ==
    CASE s = " btc" -> "btc"
      [] s = " BTC" -> "BTC"
      [] OTHER -> s

\* str.upper()
Upper(s) ==
    CASE s = " btc" -> " BTC"
      [] s = "btc"  -> "BTC"
      [] OTHER -> s

\* Domestic prices (KRW).  Against 70000 USD (94,500,000 KRW at the rate
\* 1350, 98,000,000 at 1400) they give the premiums
\*     93,555,000: exactly -1 % and -4.54 %
\*     97,335,000: exactly +3 % and -0.68 %
\*    100,000,000:    +5.82 %  and +2.04 %
KrwPrices == {93555000, 97335000, 100000000}
UsdPrices == {70000}
FxRates   == {1400}

\* What the upstream sources answer during one premium computation.
\* "error" stands for any exception of the call or of the decoding of its
\* payload (transport error, timeout, non-2xx status, missing field).
Upstream ==
    {u \in [upbit : {"ok", "error"}, krw : KrwPrices,
            search : {"match", "empty", "error"},
            cg : {"ok", "error"}, usd : UsdPrices,
            fx : {"ok", "nokey", "error"}, rate : FxRates] :
        \* answers that are never looked at are left out
        /\ u.upbit = "error" =>
              u.krw = 100000000 /\ u.search = "match" /\ u.cg = "error"
        /\ u.cg = "error" => u.usd = 70000 /\ u.fx = "error"
        /\ u.fx # "ok" => u.rate = 1400}

\* The isolated computations are also applied to a domestic price equal to
\* the converted reference price (94,500,000 = 70,000 * 1350) and to a
\* fetched rate equal to the default one.
CalcKrwPrices == KrwPrices \cup {94500000}
CalcFxRates   == FxRates \cup {1350}
CalcUpstream ==
    {u \in [upbit : {"ok", "error"}, krw : CalcKrwPrices,
            search : {"match", "empty", "error"},
            cg : {"ok", "error"}, usd : UsdPrices,
            fx : {"ok", "nokey", "error"}, rate : CalcFxRates] :
        /\ u.upbit = "error" =>
              u.krw = 100000000 /\ u.search = "match" /\ u.cg = "error"
        /\ u.cg = "error" => u.usd = 70000 /\ u.fx = "error"
        /\ u.fx # "ok" => u.rate = 1400}

\* What the Telegram API answers to one sendMessage call.
TelegramOutcomes == {"200", "non200", "error"}

ThresholdChoices == {<<3, -1>>, <<-1, 3>>}
AlertCoinsChoices == {<<"BTC", "ETH">>, <<"KLAY", "BTC">>, <<"BTC", " btc">>}
IntervalChoices == {30}

\* ----------------------------------------------------------------- state
VARIABLES
    TG_TOKEN, TG_CHAT_ID,         \* notification credentials ("" = unset)
    ALERT_KIMCHI_HIGH, ALERT_KIMCHI_LOW,
    ALERT_COINS, ALERT_INTERVAL_MIN,
    now,                          \* datetime.now(), in minutes
    _last_alert,                  \* dict: alert key -> time of last delivery
    _monitor_task,                \* handle of the task lifespan created
    mon,                          \* the monitor_loop tasks
    lifespan_pc,                  \* "init" -> "serving" -> "stopped"
    req,                          \* the request handler in flight
    resp,                         \* the response returned by the last step
    ev,                           \* what the monitor did in the last step
    calc_in, calc_out             \* input / output of an isolated computation

config == <<TG_TOKEN, TG_CHAT_ID, ALERT_KIMCHI_HIGH, ALERT_KIMCHI_LOW,
            ALERT_COINS, ALERT_INTERVAL_MIN>>
calc == <<calc_in, calc_out>>
vars == <<config, now, _last_alert, _monitor_task, mon, lifespan_pc, req,
          resp, ev, calc>>

\* ------------------------------------------------------------- premium
None == [kind |-> "None"]

\* The difference taken relative to the domestic price.
PremiumOverDomestic(krw_price, usd_price, usd_krw) ==
    [kind |-> "pct",
     num  |-> (krw_price - usd_price * usd_krw) * 100,
     den  |-> krw_price]

\* The difference taken the other way round.
PremiumSwapped(krw_price, usd_price, usd_krw) ==
    [kind |-> "pct",
     num  |-> (usd_price * usd_krw - krw_price) * 100,
     den  |-> usd_price * usd_krw]

\* (krw_price - usd_price * usd_krw) / (usd_price * usd_krw) * 100, exact
Premium(krw_price, usd_price, usd_krw) ==
    [kind |-> "pct",
     num  |-> (krw_price - usd_price * usd_krw) * 100,
     den  |-> usd_price * usd_krw]

\* pct >= threshold, pct <= threshold, pct > threshold, pct < threshold
PctGE(pct, th) == pct.num >= th * pct.den
PctLE(pct, th) == pct.num <= th * pct.den
PctGT(pct, th) == pct.num > th * pct.den
PctLT(pct, th) == pct.num < th * pct.den

\* The FX step of both computations: fx["rates"]["KRW"], or 1350.0 when the
\* fetch or the lookup raises.
FxRateNoFallback(up) ==
    IF up.fx = "ok" THEN up.rate ELSE 0

FxRate(up) ==
    IF up.fx = "ok" THEN up.rate ELSE DefaultUsdKrw

\* _get_kimchi_pct without its outer try/except: a failure propagates.
GetKimchiPctUnguarded(coin, up) ==
    IF up.upbit # "ok" THEN [kind |-> "raise"]
    ELSE IF Upper(coin) \notin DOMAIN COINGECKO_IDS THEN None
    ELSE IF up.cg # "ok" THEN [kind |-> "raise"]
    ELSE IF up.usd * FxRate(up) = 0 THEN [kind |-> "raise"]
    ELSE Premium(up.krw, up.usd, FxRate(up))

\* _get_kimchi_pct(coin): the premium, or None on any failure and for a
\* symbol that COINGECKO_IDS does not hold (no fallback search here).
_get_kimchi_pct(coin, up) ==
    IF up.upbit # "ok" THEN None
    ELSE IF Upper(coin) \notin DOMAIN COINGECKO_IDS THEN None
    ELSE IF up.cg # "ok" THEN None
    ELSE IF up.usd * FxRate(up) = 0 THEN None
    ELSE Premium(up.krw, up.usd, FxRate(up))

\* get_kimchi_premium(coin): the tool.  The domestic fetch is outside any
\* try, so its failure raises; the reference id comes from the table or
\* from the first match of a search; each later failure is a message.
get_kimchi_premium(coin, up) ==
    IF up.upbit # "ok" THEN [kind |-> "raise"]
    ELSE IF Upper(coin) \notin DOMAIN COINGECKO_IDS /\ up.search = "empty"
        THEN [kind |-> "not_found"]
    ELSE IF Upper(coin) \notin DOMAIN COINGECKO_IDS /\ up.search = "error"
        THEN [kind |-> "search_failed"]
    ELSE IF up.cg # "ok" THEN [kind |-> "price_failed"]
    ELSE IF up.usd * FxRate(up) = 0 THEN [kind |-> "raise"]
    ELSE Premium(up.krw, up.usd, FxRate(up))

\* send_telegram that takes any answer of the channel for a delivery.
SendTelegramAnyAnswer(outcome) ==
    IF TG_TOKEN = "" \/ TG_CHAT_ID = "" THEN FALSE
    ELSE outcome \in {"200", "non200"}

\* The c.post(...) calls one send_telegram(message) makes: the early return
\* without credentials makes none, the try block makes one.
send_telegram_posts(outcome) ==
    IF TG_TOKEN = "" \/ TG_CHAT_ID = "" THEN 0 ELSE 1

\* send_telegram(message): True only for an HTTP 200 answer; no call at all
\* without credentials.
send_telegram(outcome) ==
    IF TG_TOKEN = "" \/ TG_CHAT_ID = "" THEN FALSE
    ELSE outcome = "200"

\* ------------------------------------------------------- alert policy
\* f"{coin}_high" / f"{coin}_low"
Key(coin, dir) == <<coin, dir>>

\* No cooldown test at all.
CanAlertAlways(key, cooldown_minutes, last_alert, t) == TRUE

\* The cooldown test with the boundary excluded.
CanAlertStrict(key, cooldown_minutes, last_alert, t) ==
    IF key \notin DOMAIN last_alert THEN TRUE
    ELSE t - last_alert[key] > cooldown_minutes

\* The cooldown test keyed by symbol alone.
CanAlertPerCoin(key, cooldown_minutes, last_alert, t) ==
    \A k \in DOMAIN last_alert :
        k[1] = key[1] => t - last_alert[k] >= cooldown_minutes

\* _can_alert(key, cooldown_minutes): last_alert and t are the globals it
\* reads, _last_alert and datetime.now(), at the time of the call.
_can_alert(key, cooldown_minutes, last_alert, t) ==
    IF key \notin DOMAIN last_alert THEN TRUE
    ELSE t - last_alert[key] >= cooldown_minutes

\* The thresholds compared with > and <.
CandidatesStrict(coin, pct) ==
    IF PctGT(pct, ALERT_KIMCHI_HIGH) THEN <<Key(coin, "high")>>
    ELSE IF PctLT(pct, ALERT_KIMCHI_LOW) THEN <<Key(coin, "low")>>
    ELSE <<>>

\* Two independent ifs instead of if / elif.
CandidatesBoth(coin, pct) ==
    (IF PctGE(pct, ALERT_KIMCHI_HIGH) THEN <<Key(coin, "high")>> ELSE <<>>)
    \o (IF PctLE(pct, ALERT_KIMCHI_LOW) THEN <<Key(coin, "low")>> ELSE <<>>)

\* The if / elif of monitor_loop: the keys a premium is a candidate for.
Candidates(coin, pct) ==
    IF PctGE(pct, ALERT_KIMCHI_HIGH) THEN <<Key(coin, "high")>>
    ELSE IF PctLE(pct, ALERT_KIMCHI_LOW) THEN <<Key(coin, "low")>>
    ELSE <<>>

\* -------------------------------------------------------- monitor task
NoEv   == [kind |-> "none"]
NoResp == [op |-> "none"]
NoReq  == [op |-> "none"]
NoKey  == <<>>

\* A task object before asyncio.create_task has handed it out.  pc is the
\* await the task is suspended in ("init_sleep", "fetch", "send", "sleep");
\* idx, coin, pct, key are the loop's locals; todo holds the candidate keys
\* of the current symbol that are still to be tested; wake is the time the
\* inter-tick sleep ends.
NotStartedTask ==
    [state |-> "NotStarted", must_cancel |-> FALSE, pc |-> "none", idx |-> 0,
     coin |-> "", pct |-> None, todo |-> <<>>, key |-> NoKey,
     attempted |-> {}, wake |-> 0]

\* A task that has not finished and has no cancellation pending may run.
Runnable(t) == mon[t].state = "Running" /\ ~mon[t].must_cancel

\* _monitor_task.done()
Done(t) == mon[t].state \in {"Cancelled", "Failed"}

Max(a, b) == IF a >= b THEN a ELSE b

\* The clock may move from now to t.  A request handler is in flight for
\* seconds (each of its calls has a 10 s timeout), so no whole minute
\* passes while one is; and the model stops the clock at MaxTime.
ClockMayReach(t) ==
    /\ t <= MaxTime
    /\ t # now => req = NoReq

\* The for loop moves to the next watched symbol, or, after the last one,
\* the task sleeps ALERT_INTERVAL_MIN minutes from time t.
NextCoin(m, t) ==
    IF m.idx < Len(ALERT_COINS)
    THEN [m EXCEPT !.pc = "fetch", !.idx = m.idx + 1,
                   !.coin = Upper(Strip(ALERT_COINS[m.idx + 1])),
                   !.pct = None, !.todo = <<>>, !.key = NoKey,
                   !.attempted = {}]
    ELSE [m EXCEPT !.pc = "sleep", !.idx = 0, !.coin = "", !.pct = None,
                   !.todo = <<>>, !.key = NoKey, !.attempted = {},
                   !.wake = t + ALERT_INTERVAL_MIN]

\* The body of the loop for one symbol from the threshold test on, up to
\* its next await: each candidate key in todo is tested with _can_alert;
\* the first one that may alert is sent (pc = "send"), and with no
\* candidate left the loop moves on.  dec lists the tests made.
RECURSIVE Evaluate(_, _, _, _)
Evaluate(m, todo, last_alert, t) ==
    IF todo = <<>> THEN [m |-> NextCoin(m, t), dec |-> <<>>]
    ELSE IF _can_alert(Head(todo), CooldownMinutes, last_alert, t)
    THEN [m |-> [m EXCEPT !.pc = "send", !.key = Head(todo),
                          !.todo = Tail(todo),
                          !.attempted = @ \cup {Head(todo)}],
          dec |-> <<[key |-> Head(todo), fire |-> TRUE]>>]
    ELSE LET rest == Evaluate(m, Tail(todo), last_alert, t)
         IN [m |-> rest.m,
             dec |-> <<[key |-> Head(todo), fire |-> FALSE]>> \o rest.dec]

\* ------------------------------------------------------------------ Init
Idle ==
    /\ now = 0
    /\ _last_alert = [k \in {} |-> 0]
    /\ _monitor_task = NoTask
    /\ mon = [t \in Tasks |-> NotStartedTask]
    /\ lifespan_pc = "init"
    /\ req = NoReq
    /\ resp = NoResp
    /\ ev = NoEv

Init ==
    /\ TG_TOKEN \in {"", "token"}
    /\ TG_CHAT_ID \in {"", "chat"}
    /\ \E th \in ThresholdChoices :
          ALERT_KIMCHI_HIGH = th[1] /\ ALERT_KIMCHI_LOW = th[2]
    /\ ALERT_COINS \in AlertCoinsChoices
    /\ ALERT_INTERVAL_MIN \in IntervalChoices
    /\ Idle
    /\ calc_in = [coin |-> "", up |-> None]
    /\ calc_out = [op |-> "none"]

\* -------------------------------------------------------------- lifespan
\* lifespan that starts the monitor whatever the credentials.
LifespanStartupAlways ==
    /\ lifespan_pc = "init"
    /\ lifespan_pc' = "serving"
    /\ \E t \in Tasks :
          /\ mon[t].state = "NotStarted"
          /\ \A u \in Tasks : mon[u].state = "NotStarted" => t <= u
          /\ mon' = [mon EXCEPT ![t] = [NotStartedTask EXCEPT
                        !.state = "Running", !.pc = "init_sleep"]]
          /\ _monitor_task' = t
    /\ resp' = NoResp /\ ev' = NoEv
    /\ UNCHANGED <<config, now, _last_alert, req, calc>>

\* lifespan, up to its yield: create the monitor task iff both credentials
\* are set.
lifespan_startup ==
    /\ lifespan_pc = "init"
    /\ lifespan_pc' = "serving"
    /\ IF TG_TOKEN # "" /\ TG_CHAT_ID # ""
       THEN \E t \in Tasks :
              /\ mon[t].state = "NotStarted"
              /\ \A u \in Tasks : mon[u].state = "NotStarted" => t <= u
              /\ mon' = [mon EXCEPT ![t] = [NotStartedTask EXCEPT
                            !.state = "Running", !.pc = "init_sleep"]]
              /\ _monitor_task' = t
       ELSE UNCHANGED <<mon, _monitor_task>>
    /\ resp' = NoResp /\ ev' = NoEv
    /\ UNCHANGED <<config, now, _last_alert, req, calc>>

\* lifespan that forgets to cancel the monitor.
LifespanShutdownNoCancel ==
    /\ lifespan_pc = "serving"
    /\ lifespan_pc' = "stopped"
    /\ resp' = NoResp /\ ev' = NoEv
    /\ UNCHANGED <<config, now, _last_alert, _monitor_task, mon, req, calc>>

\* lifespan, after its yield: _monitor_task.cancel() requests cancellation;
\* the task gets CancelledError at the await it is suspended in.
lifespan_shutdown ==
    /\ lifespan_pc = "serving"
    /\ lifespan_pc' = "stopped"
    /\ IF _monitor_task # NoTask /\ ~Done(_monitor_task)
       THEN mon' = [mon EXCEPT ![_monitor_task].must_cancel = TRUE]
       ELSE UNCHANGED mon
    /\ resp' = NoResp /\ ev' = NoEv
    /\ UNCHANGED <<config, now, _last_alert, _monitor_task, req, calc>>

\* ---------------------------------------------------------- monitor_loop
\* await asyncio.sleep(10) returns (ten seconds: no whole minute passes);
\* the while loop is entered and the first symbol's premium is requested.
monitor_loop_start(t) ==
    /\ Runnable(t)
    /\ mon[t].pc = "init_sleep"
    /\ mon' = [mon EXCEPT ![t] = NextCoin(mon[t], now)]
    /\ ev' = [kind |-> "tick", task |-> t]
    /\ resp' = NoResp
    /\ UNCHANGED <<config, now, _last_alert, _monitor_task, lifespan_pc, req,
                   calc>>

\* pct = await _get_kimchi_pct(coin) returns: None skips the symbol; a
\* premium goes through the threshold and cooldown tests up to the await of
\* send_telegram.  An exception out of the awaited call would end the task.
monitor_loop_fetched(t) ==
    /\ Runnable(t)
    /\ mon[t].pc = "fetch"
    /\ \E up \in Upstream :
          LET pct == _get_kimchi_pct(mon[t].coin, up)
              m   == [mon[t] EXCEPT !.pct = pct]
              r   == Evaluate(m, Candidates(m.coin, pct), _last_alert, now)
          IN  CASE pct.kind = "raise" ->
                     /\ mon' = [mon EXCEPT ![t] = [NotStartedTask EXCEPT
                                                     !.state = "Failed"]]
                     /\ ev' = [kind |-> "raise", task |-> t,
                               coin |-> mon[t].coin]
                [] pct.kind = "None" ->
                     /\ mon' = [mon EXCEPT ![t] = NextCoin(mon[t], now)]
                     /\ ev' = [kind |-> "skip", task |-> t,
                               coin |-> mon[t].coin, idx |-> mon[t].idx]
                [] OTHER ->
                     /\ mon' = [mon EXCEPT ![t] = r.m]
                     /\ ev' = [kind |-> "eval", task |-> t,
                               coin |-> mon[t].coin, pct |-> pct,
                               dec |-> r.dec]
    /\ resp' = NoResp
    /\ UNCHANGED <<config, now, _last_alert, _monitor_task, lifespan_pc, req,
                   calc>>

\* The return of send_telegram recorded whether or not it delivered.
MonitorLoopSentAlwaysRecords(t) ==
    /\ Runnable(t)
    /\ mon[t].pc = "send"
    /\ \E outcome \in TelegramOutcomes, d \in 0..SendDelay :
          LET sent == send_telegram(outcome)
              la   == (mon[t].key :> (now + d)) @@ _last_alert
              r    == Evaluate(mon[t], mon[t].todo, la, now + d)
          IN  /\ ClockMayReach(now + d)
              /\ now' = now + d
              /\ _last_alert' = la
              /\ mon' = [mon EXCEPT ![t] = r.m]
              /\ ev' = [kind |-> "send", task |-> t, key |-> mon[t].key,
                        sent |-> sent, dec |-> r.dec]
    /\ resp' = NoResp
    /\ UNCHANGED <<config, _monitor_task, lifespan_pc, req, calc>>

\* sent = await send_telegram(...) returns: on True the key's timestamp is
\* set to datetime.now(); then the loop goes on.
monitor_loop_sent(t) ==
    /\ Runnable(t)
    /\ mon[t].pc = "send"
    /\ \E outcome \in TelegramOutcomes, d \in 0..SendDelay :
          LET sent == send_telegram(outcome)
              la   == IF sent THEN (mon[t].key :> (now + d)) @@ _last_alert
                      ELSE _last_alert
              r    == Evaluate(mon[t], mon[t].todo, la, now + d)
          IN  /\ ClockMayReach(now + d)
              /\ now' = now + d
              /\ _last_alert' = la
              /\ mon' = [mon EXCEPT ![t] = r.m]
              /\ ev' = [kind |-> "send", task |-> t, key |-> mon[t].key,
                        sent |-> sent, dec |-> r.dec]
    /\ resp' = NoResp
    /\ UNCHANGED <<config, _monitor_task, lifespan_pc, req, calc>>

\* await asyncio.sleep(ALERT_INTERVAL_MIN * 60) returns, no earlier than the
\* wake-up time, and the next tick requests the first symbol's premium.
monitor_loop_wake(t) ==
    /\ Runnable(t)
    /\ mon[t].pc = "sleep"
    /\ \E j \in 0..SleepJitter :
          LET w == Max(now, mon[t].wake + j)
          IN  /\ ClockMayReach(w)
              /\ now' = w
              /\ mon' = [mon EXCEPT ![t] = NextCoin(mon[t], w)]
    /\ ev' = [kind |-> "tick", task |-> t]
    /\ resp' = NoResp
    /\ UNCHANGED <<config, _last_alert, _monitor_task, lifespan_pc, req, calc>>

\* CancelledError is raised at the await the task is suspended in; no
\* handler of monitor_loop or of the calls it awaits catches it.
monitor_loop_cancelled(t) ==
    /\ mon[t].state = "Running"
    /\ mon[t].must_cancel
    /\ mon' = [mon EXCEPT ![t] = [NotStartedTask EXCEPT !.state = "Cancelled"]]
    /\ ev' = [kind |-> "cancelled", task |-> t, at |-> mon[t].pc]
    /\ resp' = NoResp
    /\ UNCHANGED <<config, now, _last_alert, _monitor_task, lifespan_pc, req,
                   calc>>

\* ------------------------------------------------------ request handlers
\* Requests are served between lifespan's startup and its shutdown, one
\* handler in flight at a time.
Serving == lifespan_pc = "serving" /\ now <= MaxRequestTime

\* POST /alert/now/{coin}: the handler starts and awaits _get_kimchi_pct.
alert_now_call(coin) ==
    /\ Serving
    /\ req = NoReq
    /\ req' = [op |-> "alert_now", pc |-> "fetch", coin |-> coin, pct |-> None]
    /\ resp' = NoResp /\ ev' = NoEv
    /\ UNCHANGED <<config, now, _last_alert, _monitor_task, mon, lifespan_pc,
                   calc>>

\* alert_now that applies the monitor's policy: it sends only for a
\* candidate key that _can_alert lets through, and answers not sent
\* otherwise.
AlertNowFetchedGated ==
    /\ req.op = "alert_now"
    /\ req.pc = "fetch"
    /\ \E up \in Upstream :
          LET pct  == _get_kimchi_pct(Upper(req.coin), up)
              keys == Candidates(Upper(req.coin), pct)
          IN  IF pct.kind = "None"
              THEN /\ req' = NoReq
                   /\ resp' = [op |-> "alert_now", status |-> 400]
              ELSE IF /\ keys # <<>>
                      /\ _can_alert(keys[1], CooldownMinutes, _last_alert, now)
              THEN /\ req' = [req EXCEPT !.pc = "send", !.pct = pct]
                   /\ resp' = NoResp
              ELSE /\ req' = NoReq
                   /\ resp' = [op |-> "alert_now", status |-> 200,
                               sent |-> FALSE, coin |-> Upper(req.coin),
                               kimchi_pct |-> pct]
    /\ ev' = NoEv
    /\ UNCHANGED <<config, now, _last_alert, _monitor_task, mon, lifespan_pc,
                   calc>>

\* alert_now: _get_kimchi_pct(coin.upper()) returns; None is answered with
\* HTTP 400, a premium is sent whatever its value.
alert_now_fetched ==
    /\ req.op = "alert_now"
    /\ req.pc = "fetch"
    /\ \E up \in Upstream :
          LET pct == _get_kimchi_pct(Upper(req.coin), up)
          IN  IF pct.kind = "None"
              THEN /\ req' = NoReq
                   /\ resp' = [op |-> "alert_now", status |-> 400]
              ELSE /\ req' = [req EXCEPT !.pc = "send", !.pct = pct]
                   /\ resp' = NoResp
    /\ ev' = NoEv
    /\ UNCHANGED <<config, now, _last_alert, _monitor_task, mon, lifespan_pc,
                   calc>>

\* alert_now that records its delivery in the cooldown map.
AlertNowSentRecords ==
    /\ req.op = "alert_now"
    /\ req.pc = "send"
    /\ \E outcome \in TelegramOutcomes :
          /\ resp' = [op |-> "alert_now", status |-> 200,
                      sent |-> send_telegram(outcome),
                      coin |-> Upper(req.coin), kimchi_pct |-> req.pct]
          /\ _last_alert' =
                IF send_telegram(outcome)
                THEN (Key(Upper(req.coin), "high") :> now) @@ _last_alert
                ELSE _last_alert
    /\ req' = NoReq
    /\ ev' = NoEv
    /\ UNCHANGED <<config, now, _monitor_task, mon, lifespan_pc, calc>>

\* alert_now that puts the cooldown map into its answer.
AlertNowSentShowsAlerts ==
    /\ req.op = "alert_now"
    /\ req.pc = "send"
    /\ \E outcome \in TelegramOutcomes :
          resp' = [op |-> "alert_now", status |-> 200,
                   sent |-> send_telegram(outcome),
                   coin |-> Upper(req.coin), kimchi_pct |-> req.pct,
                   last_alerts |-> _last_alert]
    /\ req' = NoReq
    /\ ev' = NoEv
    /\ UNCHANGED <<config, now, _last_alert, _monitor_task, mon, lifespan_pc,
                   calc>>

\* alert_now: send_telegram returns and the handler answers.
alert_now_sent ==
    /\ req.op = "alert_now"
    /\ req.pc = "send"
    /\ \E outcome \in TelegramOutcomes :
          resp' = [op |-> "alert_now", status |-> 200,
                   sent |-> send_telegram(outcome),
                   coin |-> Upper(req.coin), kimchi_pct |-> req.pct]
    /\ req' = NoReq
    /\ ev' = NoEv
    /\ UNCHANGED <<config, now, _last_alert, _monitor_task, mon, lifespan_pc,
                   calc>>

\* POST /alert/test: HTTP 400 without credentials, else one send.
alert_test ==
    /\ Serving
    /\ req = NoReq
    /\ IF TG_TOKEN = "" \/ TG_CHAT_ID = ""
       THEN resp' = [op |-> "alert_test", status |-> 400]
       ELSE \E outcome \in TelegramOutcomes :
               resp' = [op |-> "alert_test", status |-> 200,
                        sent |-> send_telegram(outcome)]
    /\ ev' = NoEv
    /\ UNCHANGED <<config, now, _last_alert, _monitor_task, mon, lifespan_pc,
                   req, calc>>

\* monitor_running without the done() test.
MonitorRunningNoDoneTest == _monitor_task # NoTask

\* _monitor_task is not None and not _monitor_task.done()
monitor_running == _monitor_task # NoTask /\ ~Done(_monitor_task)

\* GET /alert/status.  The timestamps are formatted to the second, which
\* keeps the minute.
alert_status ==
    /\ Serving
    /\ req = NoReq
    /\ resp' = [op |-> "alert_status", status |-> 200,
                telegram_enabled |-> (TG_TOKEN # "" /\ TG_CHAT_ID # ""),
                monitor_running |-> monitor_running,
                last_alerts |-> _last_alert]
    /\ ev' = NoEv
    /\ UNCHANGED <<config, now, _last_alert, _monitor_task, mon, lifespan_pc,
                   req, calc>>

\* GET /kimchi/{coin} and the get_kimchi_premium tool: no shared state is
\* read or written, so the whole call is one step.
kimchi_premium_request(coin) ==
    /\ Serving
    /\ req = NoReq
    /\ \E up \in Upstream :
          resp' = [op |-> "get_kimchi_premium",
                   result |-> get_kimchi_premium(coin, up)]
    /\ ev' = NoEv
    /\ UNCHANGED <<config, now, _last_alert, _monitor_task, mon, lifespan_pc,
                   req, calc>>

\* ------------------------------------------------------------------ Next
Next ==
    \/ lifespan_startup
    \/ lifespan_shutdown
    \/ \E t \in Tasks : monitor_loop_start(t)
    \/ \E t \in Tasks : monitor_loop_fetched(t)
    \/ \E t \in Tasks : monitor_loop_sent(t)
    \/ \E t \in Tasks : monitor_loop_wake(t)
    \/ \E t \in Tasks : monitor_loop_cancelled(t)
    \/ \E coin \in RawCoins : alert_now_call(coin)
    \/ alert_now_fetched
    \/ alert_now_sent
    \/ alert_test
    \/ alert_status
    \/ \E coin \in RawCoins : kimchi_premium_request(coin)

Spec == Init /\ [][Next]_vars

\* ------------------------------------- the premium computations, isolated
\* One symbol, one set of upstream answers and one answer of the Telegram
\* API; the computations, one evaluation of the monitor (nothing alerted
\* yet) and send_telegram are applied to them.
CalcInit ==
    /\ TG_TOKEN \in {"", "token"}
    /\ TG_CHAT_ID \in {"", "chat"}
    /\ ALERT_KIMCHI_HIGH = 3 /\ ALERT_KIMCHI_LOW = -1
    /\ ALERT_COINS = <<"BTC", "ETH">>
    /\ ALERT_INTERVAL_MIN = 30
    /\ Idle
    /\ calc_in \in [coin : RawCoins, up : CalcUpstream, tg : TelegramOutcomes]
    /\ calc_out = [op |-> "none"]

calc_get_kimchi_premium ==
    /\ calc_out' = [op |-> "get_kimchi_premium",
                    result |-> get_kimchi_premium(calc_in.coin, calc_in.up)]
    /\ UNCHANGED <<config, now, _last_alert, _monitor_task, mon, lifespan_pc,
                   req, resp, ev, calc_in>>

calc_get_kimchi_pct ==
    /\ calc_out' = [op |-> "_get_kimchi_pct",
                    result |-> _get_kimchi_pct(calc_in.coin, calc_in.up)]
    /\ UNCHANGED <<config, now, _last_alert, _monitor_task, mon, lifespan_pc,
                   req, resp, ev, calc_in>>

\* The body of monitor_loop's for loop for the symbol, up to the await of
\* send_telegram, with _last_alert as it is.
calc_monitor_loop ==
    /\ LET coin == Upper(Strip(calc_in.coin))
           pct  == _get_kimchi_pct(coin, calc_in.up)
           m    == [NotStartedTask EXCEPT !.coin = coin, !.pct = pct]
       IN  calc_out' =
              [op |-> "monitor_loop", coin |-> coin, result |-> pct,
               dec |-> IF pct.kind = "None" THEN <<>>
                       ELSE Evaluate(m, Candidates(coin, pct),
                                     _last_alert, now).dec]
    /\ UNCHANGED <<config, now, _last_alert, _monitor_task, mon, lifespan_pc,
                   req, resp, ev, calc_in>>

calc_send_telegram ==
    /\ calc_out' = [op |-> "send_telegram",
                    result |-> send_telegram(calc_in.tg),
                    posts |-> send_telegram_posts(calc_in.tg)]
    /\ UNCHANGED <<config, now, _last_alert, _monitor_task, mon, lifespan_pc,
                   req, resp, ev, calc_in>>

CalcNext ==
    \/ calc_get_kimchi_premium
    \/ calc_get_kimchi_pct
    \/ calc_monitor_loop
    \/ calc_send_telegram

SpecCalc == CalcInit /\ [][CalcNext]_vars

\* --------------------------------------- lifespan entered a second time
\* lifespan is a context manager of the module: nothing in it records that
\* it has been entered, so a second ASGI lifespan scope of the same process
\* runs the same two halves on the same globals.  lifespan_pc counts the
\* scopes that are open: "serving_twice" is two.
lifespan_startup_again ==
    /\ lifespan_pc = "serving"
    /\ lifespan_pc' = "serving_twice"
    /\ IF TG_TOKEN # "" /\ TG_CHAT_ID # ""
       THEN \E t \in Tasks :
              /\ mon[t].state = "NotStarted"
              /\ \A u \in Tasks : mon[u].state = "NotStarted" => t <= u
              /\ mon' = [mon EXCEPT ![t] = [NotStartedTask EXCEPT
                            !.state = "Running", !.pc = "init_sleep"]]
              /\ _monitor_task' = t
       ELSE UNCHANGED <<mon, _monitor_task>>
    /\ resp' = NoResp /\ ev' = NoEv
    /\ UNCHANGED <<config, now, _last_alert, req, calc>>

\* The first of two open scopes ends: the same shutdown half.
lifespan_shutdown_first ==
    /\ lifespan_pc = "serving_twice"
    /\ lifespan_pc' = "serving"
    /\ IF _monitor_task # NoTask /\ ~Done(_monitor_task)
       THEN mon' = [mon EXCEPT ![_monitor_task].must_cancel = TRUE]
       ELSE UNCHANGED mon
    /\ resp' = NoResp /\ ev' = NoEv
    /\ UNCHANGED <<config, now, _last_alert, _monitor_task, req, calc>>

RestartInit ==
    /\ TG_TOKEN \in {"", "token"}
    /\ TG_CHAT_ID = "chat"
    /\ ALERT_KIMCHI_HIGH = 3 /\ ALERT_KIMCHI_LOW = -1
    /\ ALERT_COINS = <<"BTC">>
    /\ ALERT_INTERVAL_MIN = 30
    /\ Idle
    /\ calc_in = [coin |-> "", up |-> None]
    /\ calc_out = [op |-> "none"]

RestartNext ==
    \/ lifespan_startup
    \/ lifespan_startup_again
    \/ lifespan_shutdown_first
    \/ lifespan_shutdown
    \/ \E t \in Tasks : monitor_loop_start(t)
    \/ \E t \in Tasks : monitor_loop_fetched(t)
    \/ \E t \in Tasks : monitor_loop_sent(t)
    \/ \E t \in Tasks : monitor_loop_wake(t)
    \/ \E t \in Tasks : monitor_loop_cancelled(t)

SpecRestart == RestartInit /\ [][RestartNext]_vars

\* ------------------------------------------- the monitor, scheduled fairly
\* The monitor alone, with ALERT_INTERVAL_MIN = 0 and every sleep and send
\* returning within the minute they started in, so that ticks follow each
\* other without end while the clock stands still.
LiveInit ==
    /\ TG_TOKEN = "token" /\ TG_CHAT_ID = "chat"
    /\ ALERT_KIMCHI_HIGH = 3 /\ ALERT_KIMCHI_LOW = -1
    /\ ALERT_COINS \in AlertCoinsChoices
    /\ ALERT_INTERVAL_MIN = 0
    /\ Idle
    /\ calc_in = [coin |-> "", up |-> None]
    /\ calc_out = [op |-> "none"]

LiveNext ==
    /\ \/ lifespan_startup
       \/ \E t \in Tasks : monitor_loop_start(t)
       \/ \E t \in Tasks : monitor_loop_fetched(t)
       \/ \E t \in Tasks : monitor_loop_sent(t)
       \/ \E t \in Tasks : monitor_loop_wake(t)
    /\ now' = now

\* monitor_loop's fetch returns a premium that makes key a candidate.
FetchedCrossing(t, key) ==
    /\ monitor_loop_fetched(t)
    /\ now' = now
    /\ ev'.kind = "eval"
    /\ Len(ev'.dec) > 0
    /\ ev'.dec[1].key = key

\* monitor_loop's send_telegram returns True.
SentDelivered(t) ==
    /\ monitor_loop_sent(t)
    /\ now' = now
    /\ ev'.sent

\* The keys of the symbol every watched list holds.
LiveKeys == {Key("BTC", d) : d \in {"high", "low"}}

\* The event loop runs the monitor task (the one task lifespan creates
\* here) once its await has returned: weak fairness of each of its steps.
\* The premium of a symbol crosses a threshold
\* again and again, and the Telegram API answers 200 again and again
\* (strong fairness of those answers).
LiveFairness ==
    /\ WF_vars(lifespan_startup)
    /\ WF_vars(\E t \in Tasks : monitor_loop_start(t) /\ now' = now)
    /\ WF_vars(\E t \in Tasks : monitor_loop_fetched(t) /\ now' = now)
    /\ WF_vars(\E t \in Tasks : monitor_loop_sent(t) /\ now' = now)
    /\ WF_vars(\E t \in Tasks : monitor_loop_wake(t) /\ now' = now)
    /\ SF_vars(\E t \in Tasks : SentDelivered(t))
    /\ \A key \in LiveKeys : SF_vars(\E t \in Tasks : FetchedCrossing(t, key))

SpecLive == LiveInit /\ [][LiveNext]_vars /\ LiveFairness

\* ================================================================ claims
\* key is alert-due by the rule of the specification: no timestamp, or one
\* that is at least the cooldown old.
Due(key, last_alert, t) ==
    \/ key \notin DOMAIN last_alert
    \/ t - last_alert[key] >= CooldownMinutes

\* C1: when the monitor's send_telegram returns not delivered, _last_alert
\* is left exactly as it was and the key is still alert-due right after;
\* when it returns delivered, exactly that key is set to the current time.
C1_FailedDeliveryKeepsCooldown ==
    [][ev'.kind = "send" =>
          IF ev'.sent
          THEN _last_alert' = (ev'.key :> now') @@ _last_alert
          ELSE /\ _last_alert' = _last_alert
               /\ Due(ev'.key, _last_alert', now')]_vars

\* A delivery for a key without a timestamp has just failed.
C1_Witness ==
    /\ ev.kind = "send"
    /\ ~ev.sent
    /\ ev.key \notin DOMAIN _last_alert
    /\ mon[ev.task].state = "Running"

\* The cooldown tests the monitor made in the step just taken.
Decisions == IF ev.kind \in {"eval", "send"} THEN ev.dec ELSE <<>>

\* C2: a candidate key is sent exactly when it has no timestamp or its
\* timestamp is at least 60 minutes old (the boundary fires); within the
\* cooldown nothing is sent although the premium crosses the threshold.
C2_CooldownWindow ==
    /\ \A i \in DOMAIN Decisions :
          Decisions[i].fire <=> Due(Decisions[i].key, _last_alert, now)
    /\ ev.kind = "eval" =>
          /\ PctGE(ev.pct, ALERT_KIMCHI_HIGH) =>
                Len(ev.dec) >= 1 /\ ev.dec[1].key = <<ev.coin, "high">>
          /\ (~PctGE(ev.pct, ALERT_KIMCHI_HIGH)
                /\ PctLE(ev.pct, ALERT_KIMCHI_LOW)) =>
                Len(ev.dec) >= 1 /\ ev.dec[1].key = <<ev.coin, "low">>
          /\ \A i \in DOMAIN ev.dec :
                ev.dec[i].fire <=>
                   (mon[ev.task].pc = "send" /\ mon[ev.task].key = ev.dec[i].key)

\* A key delivered exactly 60 minutes ago is sent again.
C2_Witness ==
    /\ ev.kind = "eval"
    /\ Len(ev.dec) = 1
    /\ ev.dec[1].fire
    /\ ev.dec[1].key \in DOMAIN _last_alert
    /\ now - _last_alert[ev.dec[1].key] = CooldownMinutes

\* C3: in one evaluation of one symbol the monitor attempts at most one
\* notification, never both the high and the low key, whatever the premium
\* and the thresholds (also with high_pct <= low_pct).
C3_NoDoubleFire ==
    \A t \in Tasks :
        /\ Cardinality(mon[t].attempted) <= 1
        /\ \A c \in {Upper(Strip(r)) : r \in RawCoins} :
              ~({<<c, "high">>, <<c, "low">>} \subseteq mon[t].attempted)

\* With high_pct <= low_pct a premium that satisfies both tests is being
\* sent as a high alert only.
C3_Witness ==
    \E t \in Tasks :
        /\ ALERT_KIMCHI_HIGH <= ALERT_KIMCHI_LOW
        /\ mon[t].pc = "send"
        /\ PctGE(mon[t].pct, ALERT_KIMCHI_HIGH)
        /\ PctLE(mon[t].pct, ALERT_KIMCHI_LOW)
        /\ mon[t].attempted = {<<mon[t].coin, "high">>}

\* C4: the cooldown is per (symbol, direction): a delivery changes the
\* entry of its own key only, and a candidate whose own key has no
\* timestamp is sent whatever the other entries hold.
C4_PerKeyScope ==
    [][/\ \A k \in DOMAIN _last_alert' :
             (k \notin DOMAIN _last_alert \/ _last_alert'[k] # _last_alert[k])
                 => ev'.kind = "send" /\ k = ev'.key
       /\ DOMAIN _last_alert \subseteq DOMAIN _last_alert'
       /\ ev'.kind \in {"eval", "send"} =>
             \A i \in DOMAIN ev'.dec :
                 ev'.dec[i].key \notin DOMAIN _last_alert' => ev'.dec[i].fire]_vars

\* A low alert is sent while the same symbol's high key is in cooldown.
C4_Witness ==
    /\ ev.kind = "eval"
    /\ Len(ev.dec) = 1
    /\ ev.dec[1].fire
    /\ ev.dec[1].key = <<ev.coin, "low">>
    /\ <<ev.coin, "high">> \in DOMAIN _last_alert
    /\ now - _last_alert[<<ev.coin, "high">>] < CooldownMinutes

\* C5: a symbol whose premium computation fails is skipped: nothing is
\* sent for it, _last_alert is unchanged, the loop goes on with the next
\* watched symbol or, after the last one, with its sleep; and neither a
\* failed computation nor a failed delivery ends the task.
C5_SymbolFailureSkipped ==
    [][/\ ev'.kind = "skip" =>
             /\ _last_alert' = _last_alert
             /\ mon'[ev'.task].state = "Running"
             /\ mon'[ev'.task].attempted = {}
             /\ IF ev'.idx < Len(ALERT_COINS)
                THEN /\ mon'[ev'.task].pc = "fetch"
                     /\ mon'[ev'.task].idx = ev'.idx + 1
                ELSE mon'[ev'.task].pc = "sleep"
       /\ ev'.kind = "send" => mon'[ev'.task].state = "Running"
       /\ \A t \in Tasks :
             mon[t].state = "Running" =>
                 mon'[t].state \in {"Running", "Cancelled"}]_vars

\* The unresolvable first symbol has just been skipped and the second
\* one's premium is being fetched.
C5_Witness ==
    /\ ev.kind = "skip"
    /\ ev.coin \notin DOMAIN COINGECKO_IDS
    /\ ev.idx = 1
    /\ mon[ev.task].pc = "fetch"
    /\ mon[ev.task].idx = 2
    /\ mon[ev.task].state = "Running"

\* C6: _last_alert changes only in the step in which the monitor's
\* send_telegram returns; every request handler step (alert_now with a
\* successful delivery included) leaves it unchanged, also while the
\* monitor is between its cooldown test and its write.
C6_OnlyMonitorWrites ==
    [][/\ _last_alert' # _last_alert => ev'.kind = "send" /\ ev'.sent
       /\ (req' # req \/ resp'.op # "none") => _last_alert' = _last_alert]_vars

\* alert_now has just delivered a report for a symbol while the monitor
\* awaits its own delivery for the same symbol; the map holds no entry.
C6_Witness ==
    /\ resp.op = "alert_now"
    /\ resp.status = 200
    /\ resp.sent
    /\ \E t \in Tasks : mon[t].pc = "send" /\ mon[t].coin = resp.coin
    /\ DOMAIN _last_alert = {}

\* The inputs of the isolated computation resolve and both prices arrive:
\* the domestic and the reference fetch succeed, and the symbol is in the
\* table or, for the computation named op, found by its search.
Resolved(op) ==
    \/ Upper(calc_in.coin) \in DOMAIN COINGECKO_IDS
    \/ op = "get_kimchi_premium" /\ calc_in.up.search = "match"

PricesFetched ==
    calc_in.up.upbit = "ok" /\ calc_in.up.cg = "ok"

\* C7: every premium computation resolves a symbol that is absent from the
\* table through the fallback search: with a match and both prices fetched
\* it yields a premium, for get_kimchi_premium and for _get_kimchi_pct.
C7_FallbackSearchEverywhere ==
    (/\ calc_out.op \in {"get_kimchi_premium", "_get_kimchi_pct"}
     /\ Upper(calc_in.coin) \notin DOMAIN COINGECKO_IDS
     /\ calc_in.up.search = "match"
     /\ PricesFetched)
        => calc_out.result.kind = "pct"

\* C8: with both prices fetched and the FX source failing or answering
\* without the KRW rate, either computation returns the premium computed
\* with the rate 1350, never None, a message or an exception.
C8_FxFallback ==
    (/\ calc_out.op \in {"get_kimchi_premium", "_get_kimchi_pct"}
     /\ Resolved(calc_out.op)
     /\ PricesFetched
     /\ calc_in.up.fx # "ok")
        => calc_out.result =
              [kind |-> "pct",
               num  |-> (calc_in.up.krw - calc_in.up.usd * 1350) * 100,
               den  |-> calc_in.up.usd * 1350]

\* The tool has computed 100,000,000 against 70,000 USD with the FX source
\* down: +5.82 % over 94,500,000.
C8_Witness ==
    /\ calc_out.op = "get_kimchi_premium"
    /\ calc_in.up.fx = "error"
    /\ calc_in.up.krw = 100000000
    /\ calc_out.result.kind = "pct"
    /\ calc_out.result.den = 94500000
    /\ calc_out.result.num = 550000000

Configured == TG_TOKEN # "" /\ TG_CHAT_ID # ""

\* C9: the monitor task exists once lifespan has started iff both
\* credentials are set; without them no task ever leaves NotStarted, the
\* monitor does nothing and _last_alert stays empty.
C9_StartedIffConfigured ==
    /\ lifespan_pc = "init" => \A t \in Tasks : mon[t].state = "NotStarted"
    /\ lifespan_pc # "init" =>
          ((\E t \in Tasks : mon[t].state # "NotStarted") <=> Configured)
    /\ (_monitor_task # NoTask) <=> (\E t \in Tasks : mon[t].state # "NotStarted")
    /\ ~Configured =>
          /\ \A t \in Tasks : mon[t] = NotStartedTask
          /\ DOMAIN _last_alert = {}
          /\ ev.kind = "none"

\* The status query answers "not running" with only the token set.
C9_Witness ==
    /\ TG_TOKEN # "" /\ TG_CHAT_ID = ""
    /\ resp.op = "alert_status"
    /\ ~resp.monitor_running
    /\ \A t \in Tasks : mon[t].state = "NotStarted"

\* C10: a running monitor task changes state only to Cancelled, only after
\* lifespan's shutdown has requested it; once shutdown has run the monitor
\* computes no premium, sends nothing and writes nothing; a cancelled task
\* never changes again.
C10_CancelledIsTerminal ==
    [][/\ \A t \in Tasks :
             /\ (mon[t].state = "Running" /\ mon'[t].state # "Running") =>
                   /\ mon'[t].state = "Cancelled"
                   /\ mon[t].must_cancel
                   /\ lifespan_pc = "stopped"
             /\ mon[t].state = "Cancelled" => mon'[t] = mon[t]
             /\ mon'[t].must_cancel => lifespan_pc' = "stopped"
       /\ lifespan_pc = "stopped" =>
             /\ _last_alert' = _last_alert
             /\ ev'.kind \in {"none", "cancelled"}
             /\ \A t \in Tasks :
                   mon'[t] = mon[t] \/ mon'[t].state = "Cancelled"]_vars

\* The task has been cancelled while it awaited a delivery.
C10_Witness ==
    /\ ev.kind = "cancelled"
    /\ ev.at = "send"
    /\ mon[ev.task].state = "Cancelled"
    /\ lifespan_pc = "stopped"

\* C11: however often the startup half of lifespan runs, at most one monitor
\* task is running at a time, and once every scope has shut down each task
\* that was started is cancelled or has its cancellation requested.
C11_StartIsIdempotent ==
    /\ Cardinality({t \in Tasks : mon[t].state = "Running"}) <= 1
    /\ lifespan_pc = "stopped" =>
          \A t \in Tasks : mon[t].state = "Running" => mon[t].must_cancel

\* C12: for a premium the monitor computed, the keys it goes on to test are
\* COIN_high when premium >= high threshold, else COIN_low when premium <=
\* low threshold, else none; with none, send_telegram is not called for the
\* symbol, whatever _last_alert holds.  Equality with a threshold counts.
C12_InclusiveThresholds ==
    ev.kind = "eval" =>
        LET p    == ev.pct
            keys == [i \in 1..Len(ev.dec) |-> ev.dec[i].key]
            hi   == p.num >= ALERT_KIMCHI_HIGH * p.den
            lo   == p.num <= ALERT_KIMCHI_LOW * p.den
        IN  /\ hi => keys = << <<ev.coin, "high">> >>
            /\ (~hi /\ lo) => keys = << <<ev.coin, "low">> >>
            /\ (~hi /\ ~lo) =>
                  /\ keys = <<>>
                  /\ mon[ev.task].pc # "send"
                  /\ mon[ev.task].attempted = {}

\* A premium of exactly the low threshold gets its send.
C12_Witness ==
    /\ ev.kind = "eval"
    /\ ALERT_KIMCHI_HIGH = 3 /\ ALERT_KIMCHI_LOW = -1
    /\ ev.pct.num = ALERT_KIMCHI_LOW * ev.pct.den
    /\ ev.dec = <<[key |-> <<ev.coin, "low">>, fire |-> TRUE]>>
    /\ mon[ev.task].pc = "send"

\* The rate a computation multiplies the reference price by.
UsedRate == IF calc_in.up.fx = "ok" THEN calc_in.up.rate ELSE 1350

\* C13: domestic price 100,000,000, reference price 70,000 and rate 1,350
\* give the converted price 94,500,000 and a premium of 5.82 %, at or above
\* the default high threshold 3.0; with nothing alerted yet the monitor's
\* evaluation of the symbol calls for a send under COIN_high, and for none
\* under COIN_low.
C13_WorkedExample ==
    (/\ calc_out.op = "monitor_loop"
     /\ calc_out.coin \in DOMAIN COINGECKO_IDS
     /\ calc_in.up.upbit = "ok" /\ calc_in.up.krw = 100000000
     /\ calc_in.up.cg = "ok" /\ calc_in.up.usd = 70000
     /\ UsedRate = 1350
     /\ ALERT_KIMCHI_HIGH = 3
     /\ _last_alert = [k \in {} |-> 0])
    => /\ calc_out.result.kind = "pct"
       /\ calc_out.result.den = 94500000
       /\ calc_out.result.num = 550000000
       \* 5.82 %, in hundredths of a percent
       /\ (calc_out.result.num \div (calc_out.result.den \div 10000)) \div 100 = 582
       /\ calc_out.result.num >= 3 * calc_out.result.den
       /\ calc_out.dec = <<[key |-> <<calc_out.coin, "high">>, fire |-> TRUE]>>

\* The example with the rate fetched, for a listed symbol written " btc".
C13_Witness ==
    /\ calc_out.op = "monitor_loop"
    /\ calc_in.coin = " btc" /\ calc_out.coin = "BTC"
    /\ calc_in.up.krw = 100000000 /\ calc_in.up.usd = 70000
    /\ calc_in.up.fx = "ok" /\ calc_in.up.rate = 1350
    /\ calc_out.dec = <<[key |-> <<"BTC", "high">>, fire |-> TRUE]>>

\* C14: whenever either computation yields a premium, the premium is
\* positive exactly when the domestic price is above reference price * rate,
\* zero exactly when the two are equal, and negative exactly when the
\* domestic price is below.
C14_PremiumSign ==
    (/\ calc_out.op \in {"get_kimchi_premium", "_get_kimchi_pct"}
     /\ calc_out.result.kind = "pct")
    => LET krw  == calc_in.up.krw
           conv == calc_in.up.usd * UsedRate
           pct  == calc_out.result
       IN  /\ conv > 0 /\ pct.den > 0
           /\ pct.num > 0 <=> krw > conv
           /\ pct.num = 0 <=> krw = conv
           /\ pct.num < 0 <=> krw < conv

\* The monitor's computation meets a domestic price equal to the converted
\* one, and returns zero (not None).
C14_Witness ==
    /\ calc_out.op = "_get_kimchi_pct"
    /\ calc_in.up.krw = calc_in.up.usd * UsedRate
    /\ calc_out.result.kind = "pct"
    /\ calc_out.result.num = 0

\* C15: send_telegram returns a Boolean in every case, with at most one
\* outbound call; it returns TRUE only when the call was made and answered
\* with HTTP 200; any other answer, a timeout or transport error, and a
\* missing credential (for which no call is made at all) give FALSE.
C15_SinkNeverRaises ==
    calc_out.op = "send_telegram" =>
        LET creds == TG_TOKEN # "" /\ TG_CHAT_ID # ""
        IN  /\ calc_out.result \in BOOLEAN
            /\ calc_out.posts \in {0, 1}
            /\ calc_out.posts = 0 <=> ~creds
            /\ calc_out.result <=>
                  (creds /\ calc_out.posts = 1 /\ calc_in.tg = "200")

\* A call that was made and answered, but not with 200: not delivered.
C15_Witness ==
    /\ calc_out.op = "send_telegram"
    /\ TG_TOKEN # "" /\ TG_CHAT_ID # ""
    /\ calc_in.tg = "non200"
    /\ calc_out.posts = 1
    /\ calc_out.result = FALSE

\* C16: a delivery that failed for a key is tried again on later ticks
\* without any cooldown, as the key's premium keeps crossing its threshold;
\* when upstream fetches and the Telegram API succeed again and again, the
\* alert is eventually delivered and its time recorded in _last_alert.
C16_FailedDeliveryRetried ==
    \A key \in LiveKeys :
        (ev.kind = "send" /\ ev.key = key /\ ~ev.sent)
        ~> (/\ ev.kind = "send" /\ ev.key = key /\ ev.sent
            /\ key \in DOMAIN _last_alert
            /\ _last_alert[key] = now)

\* A delivery has just failed and the key has no timestamp.
C16_Witness ==
    /\ ev.kind = "send"
    /\ ev.key = Key("BTC", "high")
    /\ ~ev.sent
    /\ Key("BTC", "high") \notin DOMAIN _last_alert

\* C17 (as claimed): no request handler reads _last_alert, so no answer of
\* a handler shows an entry of it.
C17_NoRequestReadsCooldown ==
    resp.op # "none" =>
        ("last_alerts" \in DOMAIN resp => DOMAIN resp.last_alerts = {})

\* C17 (amended): of the request handlers only the status query reads
\* _last_alert, and it reports the map as it is; the answers of the
\* on-demand check, of the test alert and of the premium tool hold nothing
\* of it.
C17_OnlyStatusReadsCooldown ==
    /\ resp.op = "alert_status" => resp.last_alerts = _last_alert
    /\ resp.op \in {"alert_now", "alert_test", "get_kimchi_premium"} =>
          "last_alerts" \notin DOMAIN resp

\* The status query answers with a timestamp the monitor recorded.
C17_Witness ==
    /\ resp.op = "alert_status"
    /\ DOMAIN resp.last_alerts # {}
    /\ resp.last_alerts = _last_alert

\* Cooldown windows an operator may configure; the program has no setting
\* that takes the value, so it runs the same way under each of them.
ConfiguredCooldowns == {30, 60}

\* C18: whatever cooldown c is configured, the monitor sends a candidate
\* key exactly when the key has no timestamp or now - last >= c, that is,
\* it suppresses the key exactly while now - last < c.
C18_ConfiguredCooldown ==
    \A c \in ConfiguredCooldowns :
        \A i \in DOMAIN Decisions :
            Decisions[i].fire <=>
                \/ Decisions[i].key \notin DOMAIN _last_alert
                \/ now - _last_alert[Decisions[i].key] >= c

\* C19: monitor_running, as the status query computes it, is true exactly
\* while a monitor task is started and neither cancelled nor finished: false
\* before the start, without credentials, and once the task is cancelled.
\* An answer of the status query carries that value, and its last_alerts
\* are the entries of _last_alert (by C1 and C6 the monitor's confirmed
\* deliveries, each with the time of the latest), none of them in the
\* future.
C19_StatusTruthful ==
    /\ monitor_running <=> \E t \in Tasks : mon[t].state = "Running"
    /\ lifespan_pc = "init" => ~monitor_running
    /\ resp.op = "alert_status" =>
          /\ resp.monitor_running <=> \E t \in Tasks : mon[t].state = "Running"
          /\ resp.telegram_enabled <=> (TG_TOKEN # "" /\ TG_CHAT_ID # "")
          /\ DOMAIN resp.last_alerts = DOMAIN _last_alert
          /\ \A k \in DOMAIN _last_alert :
                resp.last_alerts[k] = _last_alert[k] /\ _last_alert[k] <= now

\* The task has been cancelled and the status value is false although
\* _monitor_task still refers to it.
C19_Witness ==
    /\ _monitor_task # NoTask
    /\ mon[_monitor_task].state = "Cancelled"
    /\ ~monitor_running
    /\ DOMAIN _last_alert # {}

\* C20: in every step, an entry of _last_alert stays, its timestamp does
\* not decrease, and a successful delivery of the monitor for a key that
\* has a timestamp comes at least 60 minutes after that timestamp: two
\* successive recorded deliveries of a key are at least the cooldown apart.
\* The steps are those of ticks, failing upstreams, failing deliveries and
\* on-demand checks, for watched lists that include one holding the same
\* symbol twice after strip/upper.
C20_DuplicateSuppression ==
    [][/\ \A k \in DOMAIN _last_alert :
             /\ k \in DOMAIN _last_alert'
             /\ _last_alert'[k] >= _last_alert[k]
             /\ _last_alert'[k] # _last_alert[k] =>
                   _last_alert'[k] - _last_alert[k] >= 60
        /\ (ev'.kind = "send" /\ ev'.sent /\ ev'.key \in DOMAIN _last_alert) =>
              /\ now' - _last_alert[ev'.key] >= 60
              /\ _last_alert'[ev'.key] = now']_vars

\* The second occurrence of a symbol in the watched list is evaluated in
\* the tick in which the first one was delivered, and is suppressed.
C20_Witness ==
    /\ ALERT_COINS = <<"BTC", " btc">>
    /\ ev.kind = "eval"
    /\ ev.coin = "BTC"
    /\ Len(ev.dec) = 1
    /\ ~ev.dec[1].fire
    /\ now - _last_alert[ev.dec[1].key] < ALERT_INTERVAL_MIN
    /\ mon[ev.task].pc = "sleep"

\* C21: when alert_now's premium computation returns, the handler either
\* goes on to send_telegram with the premium it got, whatever the thresholds
\* and whatever _last_alert holds, or (computation failed) answers HTTP 400
\* without a send; its answer after the send reports that premium; and no
\* step of the handler changes _last_alert or the monitor task, so the
\* monitor's next cooldown test (C2) is the one it would have made anyway.
C21_AlertNowIndependent ==
    [][/\ (req.op = "alert_now" /\ req.pc = "fetch" /\ req' # req) =>
             \/ /\ req'.op = "alert_now"
                /\ req'.pc = "send"
                /\ req'.pct.kind = "pct"
                /\ resp' = NoResp
             \/ /\ req' = NoReq
                /\ resp' = [op |-> "alert_now", status |-> 400]
       /\ (req.op = "alert_now" /\ req.pc = "send" /\ req' # req) =>
             /\ req' = NoReq
             /\ resp'.op = "alert_now"
             /\ resp'.status = 200
             /\ resp'.kimchi_pct = req.pct
             /\ resp'.sent => (TG_TOKEN # "" /\ TG_CHAT_ID # "")
       /\ (req' # req \/ resp'.op = "alert_now") =>
             /\ _last_alert' = _last_alert
             /\ mon' = mon
             /\ _monitor_task' = _monitor_task]_vars

\* alert_now has delivered a premium that lies between the thresholds, for
\* a symbol with a key in cooldown, and the timestamp is the monitor's.
C21_Witness ==
    /\ resp.op = "alert_now"
    /\ resp.status = 200
    /\ resp.sent
    /\ ALERT_KIMCHI_HIGH = 3 /\ ALERT_KIMCHI_LOW = -1
    /\ resp.kimchi_pct.num < 3 * resp.kimchi_pct.den
    /\ resp.kimchi_pct.num > (-1) * resp.kimchi_pct.den
    /\ now = 1
    /\ <<resp.coin, "high">> \in DOMAIN _last_alert
    /\ _last_alert[<<resp.coin, "high">>] = 0
====
